---- MODULE Spec2Model ----
(***************************************************************************)
(* Stock reconciliation (conciliacion_stock): generateAnalysisFile of      *)
(* src/app/actions.ts as a state machine.  One invocation reads the SAP    *)
(* file, the WMS file and the optional adjustments file, accumulates       *)
(* per-SKU totals in Maps and builds the reports.                          *)
(*                                                                         *)
(* Strings are sequences of one-character strings, so that trim,           *)
(* toLowerCase, toUpperCase, includes, startsWith and parseFloat are       *)
(* computed character by character as the code computes them.  Numbers are *)
(* IEEE-754 doubles restricted to the values  big * 10^16 + small, with    *)
(* the rounding (round to nearest, ties to even) a double addition makes.  *)
(* A JavaScript Map is a sequence of <<key, value>> pairs in insertion     *)
(* order; a row object of sheet_to_json is a sequence of <<key, cell>>     *)
(* pairs in column order (a blank cell has no key in its row).             *)
(***************************************************************************)
EXTENDS Integers, Sequences, FiniteSets, TLC

VARIABLES
  pc,                   \* position inside generateAnalysisFile
  input,                \* the files of this invocation (Unread: supplied when read)
  cur,                  \* the file the last step read, and its fileName
  dataMap,              \* Map<sku, entry>
  skuToCentroMap,       \* Map<sku, centro>
  mermaByCentro,        \* Map<centro, number>
  vencimientoByCentro,  \* Map<centro, number>
  finalReport,          \* the rows of the analysis report
  mermaReport,          \* rows of the 'Merma (Z42)' sheet
  vencimientoReport,    \* rows of the 'Vencimiento (Z44)' sheet
  outputBase64,         \* the workbook written: its sheets
  outcome,              \* how the invocation ended
  calls,                \* invocations begun so far
  previous              \* how the invocation before this one ended

vars == <<pc, input, cur, dataMap, skuToCentroMap, mermaByCentro, vencimientoByCentro,
          finalReport, mermaReport, vencimientoReport, outputBase64, outcome, calls,
          previous>>

-----------------------------------------------------------------------------
(* Bounds *)

\* data rows in one file
MaxRows == 2
\* invocations in a sequence of calls
MaxCalls == 2
\* data rows in a file whose rows are permuted
MaxPermRows == 3
\* the headers of a row given to findHeader are at most
MaxKeys == 2

-----------------------------------------------------------------------------
(* Strings *)

\* JavaScript's undefined (no character sequence: its element is not a character)
Undefined == <<"<undefined>">>

UpperChars == <<"A","B","C","D","E","F","G","H","I","J","K","L","M","N","O","P","Q",
                "R","S","T","U","V","W","X","Y","Z","Á","É","Í","Ó","Ú">>
LowerChars == <<"a","b","c","d","e","f","g","h","i","j","k","l","m","n","o","p","q",
                "r","s","t","u","v","w","x","y","z","á","é","í","ó","ú">>

Digits == <<"0","1","2","3","4","5","6","7","8","9">>

\* the letters toLowerCase and toUpperCase change
LowerOf == [c \in {UpperChars[i] : i \in 1..Len(UpperChars)} |->
              LowerChars[CHOOSE i \in 1..Len(UpperChars) : UpperChars[i] = c]]
UpperOf == [c \in {LowerChars[i] : i \in 1..Len(LowerChars)} |->
              UpperChars[CHOOSE i \in 1..Len(LowerChars) : LowerChars[i] = c]]
DigitOf == [c \in {Digits[i] : i \in 1..Len(Digits)} |->
              (CHOOSE i \in 1..Len(Digits) : Digits[i] = c) - 1]

ToLowerCase(s) == [i \in 1..Len(s) |-> IF s[i] \in DOMAIN LowerOf THEN LowerOf[s[i]] ELSE s[i]]

ToUpperCase(s) == [i \in 1..Len(s) |-> IF s[i] \in DOMAIN UpperOf THEN UpperOf[s[i]] ELSE s[i]]

\* \s of a regular expression, and the white space trim() removes
IsSpace(c) == c \in {" ", "\t", "\n"}

RECURSIVE TrimStart(_)
TrimStart(s) == IF s # <<>> /\ IsSpace(Head(s)) THEN TrimStart(Tail(s)) ELSE s

RECURSIVE TrimEnd(_)
TrimEnd(s) == IF s # <<>> /\ IsSpace(s[Len(s)])
              THEN TrimEnd(SubSeq(s, 1, Len(s) - 1)) ELSE s

Trim(s) == TrimEnd(TrimStart(s))

\* s.replace(/\s+/g, ' ')
RECURSIVE CollapseSpaces(_)
CollapseSpaces(s) ==
  IF s = <<>> THEN <<>>
  ELSE IF IsSpace(Head(s)) THEN <<" ">> \o CollapseSpaces(TrimStart(s))
  ELSE <<Head(s)>> \o CollapseSpaces(Tail(s))

\* s.replace(/,/g, '')
RemoveCommas(s) == SelectSeq(s, LAMBDA c : c # ",")

StartsWith(s, p) == Len(p) <= Len(s) /\ SubSeq(s, 1, Len(p)) = p

Includes(s, p) == \E i \in 0..(Len(s) - Len(p)) : SubSeq(s, i + 1, i + Len(p)) = p

\* value || dflt  for a cell (undefined and '' are falsy)
OrElse(v, dflt) == IF v = Undefined \/ v = <<>> THEN dflt ELSE v

-----------------------------------------------------------------------------
(* Header synonyms *)

SKU_SYNONYMS ==
  << <<"s", "k", "u">>,
     <<"m", "a", "t", "e", "r", "i", "a", "l">>,
     <<"c", "ó", "d", "i", "g", "o">>,
     <<"c", "o", "d", "i", "g", "o">>,
     <<"c", "ó", "d">>,
     <<"c", "o", "d">>,
     <<"i", "t", "e", "m">>,
     <<"p", "r", "o", "d", "u", "c", "t", "o">>,
     <<"p", "r", "o", "d", "u", "c", "t", " ", "i", "d">>,
     <<"a", "r", "t", "í", "c", "u", "l", "o">>,
     <<"a", "r", "t", "i", "c", "u", "l", "o">>,
     <<"r", "e", "f", "e", "r", "e", "n", "c", "i", "a">>,
     <<"r", "e", "f">>,
     <<"n", "ú", "m", "e", "r", "o", " ", "d", "e", " ", "a", "r", "t", "í", "c", "u", "l", "o">>,
     <<"n", "u", "m", "e", "r", "o", " ", "d", "e", " ", "a", "r", "t", "i", "c", "u", "l", "o">> >>

QTY_SYNONYMS ==
  << <<"u", "n", "r", "e", "s", "t", "r", "i", "c", "t", "e", "d", "s", "t", "o", "c", "k">>,
     <<"l", "i", "b", "r", "e", " ", "u", "t", "i", "l", "i", "z", "a", "c", "i", "ó", "n">>,
     <<"c", "t", "d", ".", "e", "n", " ", "u", "m", " ", "e", "n", "t", "r", "a", "d", "a">>,
     <<"q", "u", "a", "n", "t", "i", "t", "y">>,
     <<"u", "n", "r", "e", "s", "t", "r", "i", "c", "t", "e", "d">>,
     <<"c", "a", "n", "t", "i", "d", "a", "d">>,
     <<"c", "a", "n", "t">>,
     <<"s", "t", "o", "c", "k">>,
     <<"e", "x", "i", "s", "t", "e", "n", "c", "i", "a">>,
     <<"e", "x", "i", "s", "t", "e", "n", "c", "i", "a", "s">>,
     <<"q", "t", "y">>,
     <<"o", "n", " ", "h", "a", "n", "d">>,
     <<"d", "i", "s", "p", "o", "n", "i", "b", "l", "e">>,
     <<"s", "t", "o", "c", "k", " ", "s", "a", "p">>,
     <<"s", "t", "o", "c", "k", " ", "w", "m", "s">>,
     <<"a", "j", "u", "s", "t", "e">>,
     <<"a", "j", "u", "s", "t", "e", "s">> >>

AREA_SYNONYMS ==
  << <<"a", "r", "e", "a">>,
     <<"á", "r", "e", "a">> >>

WMS_AREA_SAP_SYNONYMS ==
  << <<"a", "r", "e", "a", " ", "s", "a", "p">>,
     <<"a", "l", "m", "a", "c", "é", "n">>,
     <<"a", "l", "m", "a", "c", "e", "n">>,
     <<"s", "t", "o", "r", "a", "g", "e", " ", "l", "o", "c", "a", "t", "i", "o", "n">> >>

UBICACION_SYNONYMS ==
  << <<"u", "b", "i", "c", "a", "c", "i", "ó", "n">>,
     <<"u", "b", "i", "c", "a", "c", "i", "o", "n">>,
     <<"b", "i", "n">>,
     <<"l", "o", "c", "a", "t", "i", "o", "n">> >>

CENTRO_SYNONYMS ==
  << <<"c", "e", "n", "t", "r", "o">>,
     <<"c", "e", "n", "t", "e", "r">>,
     <<"p", "l", "a", "n", "t">> >>

NOMBRE_PROD_SYNONYMS ==
  << <<"n", "o", "m", "b", "r", "e", " ", "p", "r", "o", "d">>,
     <<"n", "o", "m", "b", "r", "e", " ", "p", "r", "o", "d", "u", "c", "t", "o">>,
     <<"p", "r", "o", "d", "u", "c", "t", " ", "n", "a", "m", "e">>,
     <<"d", "e", "s", "c", "r", "i", "p", "c", "i", "ó", "n">>,
     <<"d", "e", "s", "c", "r", "i", "p", "c", "i", "o", "n">>,
     <<"d", "e", "s", "c", "r", "i", "p", "t", "i", "o", "n">>,
     <<"t", "e", "x", "t", "o", " ", "b", "r", "e", "v", "e", " ", "d", "e", " ", "m", "a", "t", "e", "r", "i", "a", "l">> >>

CLASE_MOV_SYNONYMS ==
  << <<"c", "l", "a", "s", "e", " ", "d", "e", " ", "m", "o", "v", "i", "m", "i", "e", "n", "t", "o">>,
     <<"c", "l", "a", "s", "e", " ", "m", "o", "v">>,
     <<"c", "l", ".", " ", "m", "o", "v", ".">> >>

-----------------------------------------------------------------------------
(* Rows and header resolution *)

\* Object.keys(row)
Keys(row) == [i \in 1..Len(row) |-> row[i][1]]

\* row[key]
Get(row, key) ==
  IF key # Undefined /\ \E i \in 1..Len(row) : row[i][1] = key
  THEN row[CHOOSE i \in 1..Len(row) : row[i][1] = key][2]
  ELSE Undefined

\* k.toLowerCase().trim().replace(/\s+/g, ' ')
Standardize(k) == CollapseSpaces(Trim(ToLowerCase(k)))

\* standardizedRowKeys.findIndex(pred) + 1
RECURSIVE FindIndex(_, _, _, _)
FindIndex(stdKeys, synonym, partial, j) ==
  IF j > Len(stdKeys) THEN 0
  ELSE IF (IF partial THEN Includes(stdKeys[j], synonym) ELSE stdKeys[j] = synonym) THEN j
  ELSE FindIndex(stdKeys, synonym, partial, j + 1)

\* one of findHeader's two loops over the synonyms, from synonym i: the original
\* key at the index found for the first synonym that some key equals (contains)
RECURSIVE FirstMatch(_, _, _, _, _)
FirstMatch(keys, stdKeys, cleaned, i, partial) ==
  IF i > Len(cleaned) THEN Undefined
  ELSE IF FindIndex(stdKeys, cleaned[i], partial, 1) # 0
  THEN keys[FindIndex(stdKeys, cleaned[i], partial, 1)]
  ELSE FirstMatch(keys, stdKeys, cleaned, i + 1, partial)

\* findHeader with its two loops in the other order
findHeader_PartialFirst(row, synonyms) ==
  IF row = Undefined THEN Undefined
  ELSE LET keys    == Keys(row)
           stdKeys == [j \in 1..Len(keys) |-> Standardize(keys[j])]
           cleaned == [i \in 1..Len(synonyms) |-> Standardize(synonyms[i])]
           part    == FirstMatch(keys, stdKeys, cleaned, 1, TRUE)
       IN IF part # Undefined THEN part
          ELSE FirstMatch(keys, stdKeys, cleaned, 1, FALSE)

findHeader(row, synonyms) ==
  IF row = Undefined THEN Undefined
  ELSE LET keys    == Keys(row)
           stdKeys == [j \in 1..Len(keys) |-> Standardize(keys[j])]
           cleaned == [i \in 1..Len(synonyms) |-> Standardize(synonyms[i])]
           exact   == FirstMatch(keys, stdKeys, cleaned, 1, FALSE)
       IN IF exact # Undefined THEN exact
          ELSE FirstMatch(keys, stdKeys, cleaned, 1, TRUE)

-----------------------------------------------------------------------------
(* Numbers *)

\* a double: NaN, or the value big * 10^16 + small
Num(b, s) == [nan |-> FALSE, big |-> b, small |-> s]
NaN == [nan |-> TRUE, big |-> 0, small |-> 0]
Zero == Num(0, 0)

isNaN(x) == x.nan

Abs(n) == IF n < 0 THEN -n ELSE n

\* the spacing of the doubles around b * 10^16 (2^53 < 10^16 < 2^54)
Ulp(b) == IF Abs(b) = 0 THEN 1
          ELSE IF Abs(b) <= 1 THEN 2
          ELSE IF Abs(b) <= 3 THEN 4
          ELSE IF Abs(b) <= 7 THEN 8
          ELSE IF Abs(b) <= 14 THEN 16
          ELSE IF Abs(b) <= 28 THEN 32
          ELSE 64

\* s rounded to a multiple of u, ties to the even multiple
RoundHalfEven(s, u) ==
  LET q == s \div u
      r == s % u
  IN IF 2 * r < u THEN q * u
     ELSE IF 2 * r > u THEN (q + 1) * u
     ELSE IF q % 2 = 0 THEN q * u ELSE (q + 1) * u

\* the double nearest to b * 10^16 + s
Round(b, s) == Num(b, RoundHalfEven(s, Ulp(b)))

\* x + y
Add(x, y) == IF x.nan \/ y.nan THEN NaN ELSE Round(x.big + y.big, x.small + y.small)

\* x - y
Sub(x, y) == IF x.nan \/ y.nan THEN NaN ELSE Round(x.big - y.big, x.small - y.small)

\* Math.abs(x)
MathAbs(x) == IF x.nan THEN NaN ELSE Num(Abs(x.big), IF x.big # 0 THEN (IF x.big < 0 THEN -x.small ELSE x.small) ELSE Abs(x.small))

\* x > 0
Positive(x) == ~x.nan /\ (x.big > 0 \/ (x.big = 0 /\ x.small > 0))

IsDigit(c) == c \in DOMAIN DigitOf

\* the digits s starts with
RECURSIVE DigitPrefix(_)
DigitPrefix(s) == IF s # <<>> /\ IsDigit(Head(s))
                  THEN <<Head(s)>> \o DigitPrefix(Tail(s)) ELSE <<>>

RECURSIVE DigitsValue(_)
DigitsValue(d) == IF d = <<>> THEN 0
                  ELSE 10 * DigitsValue(SubSeq(d, 1, Len(d) - 1)) + DigitOf[d[Len(d)]]

RECURSIVE Pow10(_)
Pow10(e) == IF e = 0 THEN 1 ELSE 10 * Pow10(e - 1)

\* parseFloat(s): white space, a sign, digits, an exponent; what follows is ignored.
\* (No cell of the model holds a decimal point or an exponent other than 16.)
parseFloat(str) ==
  LET s0   == TrimStart(str)
      neg  == s0 # <<>> /\ Head(s0) = "-"
      s1   == IF s0 # <<>> /\ Head(s0) \in {"-", "+"} THEN Tail(s0) ELSE s0
      ds   == DigitPrefix(s1)
      rest == SubSeq(s1, Len(ds) + 1, Len(s1))
      es   == IF rest # <<>> /\ Head(rest) \in {"e", "E"} THEN DigitPrefix(Tail(rest)) ELSE <<>>
      m    == IF neg THEN -DigitsValue(ds) ELSE DigitsValue(ds)
      e    == DigitsValue(es)
  IN IF ds = <<>> THEN NaN
     ELSE IF e >= 16 THEN Num(m * Pow10(e - 16), 0)
     ELSE Num(0, m * Pow10(e))

-----------------------------------------------------------------------------
(* Maps *)

Has(m, k) == \E i \in 1..Len(m) : m[i][1] = k

\* m.get(k), Undefined without the key
MapGet(m, k) == IF Has(m, k) THEN m[CHOOSE i \in 1..Len(m) : m[i][1] = k][2] ELSE Undefined

\* m.set(k, v): a new key goes last
MapSet(m, k, v) == IF Has(m, k)
                   THEN [i \in 1..Len(m) |-> IF m[i][1] = k THEN <<k, v>> ELSE m[i]]
                   ELSE Append(m, <<k, v>>)

MapKeys(m) == {m[i][1] : i \in 1..Len(m)}

PT01 == <<"P", "T", "0", "1">>
AREA_STAGE == <<"A", "R", "E", "A", " ", "S", "T", "A", "G", "E">>
INDEFINIDO == <<"I", "N", "D", "E", "F", "I", "N", "I", "D", "O">>

NewEntry(sku) == [sku |-> sku, sapQty |-> Zero, wmsQty |-> Zero, adjustment |-> Zero,
                  stockParaTraslado |-> Zero, centro |-> <<>>, nombreProd |-> <<>>,
                  descAlmacen |-> PT01]

ensureSku(dm, sku) == IF Has(dm, sku) THEN dm ELSE MapSet(dm, sku, NewEntry(sku))

-----------------------------------------------------------------------------
(* Files *)

\* a file not supplied yet
Unread == [kind |-> "unread", rows |-> <<>>]

\* what the decoded workbook holds: "undefined" and "empty" are a falsy base64
\* argument, "nosheet" a workbook without a first sheet, "norows" a sheet without
\* data rows, "data" a sheet with rows
File(kind, rows) == [kind |-> kind, rows |-> rows]

Thrown(step, what, file, missing) ==
  [kind |-> "error", step |-> step, what |-> what, file |-> file, missing |-> missing]

readFileFromBase64_NoRowCheck(base64, fileName) ==
  IF base64.kind \in {"undefined", "empty"} THEN [ok |-> TRUE, rows |-> <<>>, what |-> ""]
  ELSE IF base64.kind = "nosheet" THEN [ok |-> FALSE, rows |-> <<>>, what |-> "unreadable: no sheet"]
  ELSE [ok |-> TRUE, rows |-> base64.rows, what |-> ""]

readFileFromBase64(base64, fileName) ==
  IF base64.kind \in {"undefined", "empty"} THEN [ok |-> TRUE, rows |-> <<>>, what |-> ""]
  ELSE IF base64.kind = "nosheet" THEN [ok |-> FALSE, rows |-> <<>>, what |-> "unreadable: no sheet"]
  ELSE IF base64.rows = <<>> THEN [ok |-> FALSE, rows |-> <<>>, what |-> "unreadable: no data"]
  ELSE [ok |-> TRUE, rows |-> base64.rows, what |-> ""]

\* data[0]
FirstRow(data) == IF data = <<>> THEN Undefined ELSE data[1]

\* [cond && name, ...].filter(Boolean)
Missing(pairs) == LET sel == SelectSeq(pairs, LAMBDA p : p[1] = Undefined)
                  IN [i \in 1..Len(sel) |-> sel[i][2]]

-----------------------------------------------------------------------------
(* The files an invocation is given *)

SapCols == <<<<"M", "a", "t", "e", "r", "i", "a", "l">>, <<"L", "i", "b", "r", "e", " ", "u", "t", "i", "l", "i", "z", "a", "c", "i", "ó", "n">>, <<"A", "l", "m", "a", "c", "é", "n">>, <<"C", "e", "n", "t", "r", "o">>, <<"T", "e", "x", "t", "o", " ", "b", "r", "e", "v", "e", " ", "d", "e", " ", "m", "a", "t", "e", "r", "i", "a", "l">>>>

WmsCols == <<<<"S", "K", "U">>, <<"C", "a", "n", "t", "i", "d", "a", "d">>, <<"A", "r", "e", "a">>, <<"U", "b", "i", "c", "a", "c", "i", "ó", "n">>, <<"A", "R", "E", "A", " ", "S", "A", "P">>>>

AdjCols == <<<<"M", "a", "t", "e", "r", "i", "a", "l">>, <<"C", "a", "n", "t", "i", "d", "a", "d">>, <<"C", "l", "a", "s", "e", " ", "d", "e", " ", "m", "o", "v", "i", "m", "i", "e", "n", "t", "o">>>>

\* the row object of a sheet row: a blank cell (Undefined) has no key
RowOf(cols, cells) ==
  LET present == SelectSeq([i \in 1..Len(cols) |-> <<cols[i], cells[i]>>],
                           LAMBDA p : p[2] # Undefined)
  IN present

\* the sequences of 1..n elements of S
RECURSIVE SeqsUpTo(_, _)
SeqsUpTo(S, n) == IF n = 0 THEN {} 
                  ELSE {<<x>> : x \in S} \cup
                       {Append(q, x) : q \in SeqsUpTo(S, n - 1), x \in S}

\* cells with the columns in `drop` blank
Blanked(cells, drop) == [i \in 1..Len(cells) |-> IF i \in drop THEN Undefined ELSE cells[i]]

\* SAP rows: SKU, quantity, storage location, centro, product name
SapCells ==
  { <<<<"A">>, <<"1">>, <<"P", "T", "0", "1">>, <<"C", "1">>, <<"P">>>>,
    <<<<" ", "A", " ">>, Undefined, <<"p", "t", "0", "1", " ">>, <<"C", "2">>, Undefined>>,
    <<Undefined, <<"2">>, <<"P", "T", "0", "1">>, <<"C", "1">>, Undefined>>,
    <<<<"B">>, <<"x">>, <<"P", "T", "0", "1">>, <<"C", "2">>, Undefined>>,
    <<<<"B">>, <<"3">>, <<"P", "T", "0", "2">>, <<"C", "1">>, Undefined>> }

\* WMS rows: SKU, quantity, area, location, storage location
WmsCells ==
  { <<<<"A">>, <<"2">>, <<"A", "R", "E", "A", " ", "S", "T", "A", "G", "E", " ", "1">>, <<"7", "-", "0", "1">>, <<"P", "T", "0", "1">>>>,
    <<<<"A">>, <<"1">>, <<"P", "I", "C", "K">>, <<"A", "1">>, <<"p", "t", "0", "1">>>>,
    <<<<"C">>, <<"4">>, <<"a", "r", "e", "a", " ", "s", "t", "a", "g", "e">>, <<" ", "7">>, <<"P", "T", "0", "2">>>>,
    <<Undefined, <<"1">>, <<"A", "R", "E", "A", " ", "S", "T", "A", "G", "E">>, <<"7">>, <<"P", "T", "0", "1">>>>,
    <<<<"B">>, <<"x">>, <<"P", "I", "C", "K">>, <<"A", "1">>, <<"P", "T", "0", "1">>>> }

\* adjustment rows: SKU, quantity, movement class
AdjCells ==
  { <<<<"A">>, <<"5">>, <<"Z", "5", "9">>>>,
    <<<<"A">>, <<"1">>, <<"z", "4", "2">>>>,
    <<<<"D">>, <<"2">>, <<"Z", "4", "4">>>>,
    <<<<"B">>, <<"x">>, <<"Z", "6", "0">>>>,
    <<Undefined, <<"1">>, <<"Z", "6", "5">>>> }

\* valid adjustment rows of a class the step does not book, and without class
OtherClassAdjCells == { <<<<"A">>, <<"3">>, <<"Z", "9", "9">>>>,
                        <<<<"A">>, <<"3">>, Undefined>> }

\* rows of one SKU at PT01 whose quantities are 10^16 and 1
BigSapCells == { <<<<"A">>, <<"1", "e", "1", "6">>, <<"P", "T", "0", "1">>, <<"C", "1">>, <<"P">>>>,
                 <<<<"A">>, <<"1">>, <<"P", "T", "0", "1">>, <<"C", "1">>, <<"P">>>> }
BigWmsCells == { <<<<"A">>, <<"1", "e", "1", "6">>, <<"P", "I", "C", "K">>, <<"A", "1">>, <<"P", "T", "0", "1">>>>,
                 <<<<"A">>, <<"1">>, <<"P", "I", "C", "K">>, <<"A", "1">>, <<"P", "T", "0", "1">>>> }
BigAdjCells == { <<<<"A">>, <<"1", "e", "1", "6">>, <<"Z", "5", "9">>>>,
                 <<<<"A">>, <<"1">>, <<"Z", "5", "9">>>> }

\* the files with data rows: every sequence of 1..MaxRows rows, and one-row files
\* whose row lacks some cells (so that the header row lacks those columns)
DataFiles(cols, cellSet, first) ==
  {File("data", [i \in 1..Len(q) |-> RowOf(cols, q[i])]) : q \in SeqsUpTo(cellSet, MaxRows)}
  \cup {File("data", <<RowOf(cols, Blanked(first, drop))>>) :
          drop \in (SUBSET (1..Len(cols))) \ {1..Len(cols)}}

\* the row objects of those files
RowObjects(cols, cellSet, first) ==
  {RowOf(cols, c) : c \in cellSet}
  \cup {RowOf(cols, Blanked(first, drop)) : drop \in (SUBSET (1..Len(cols))) \ {1..Len(cols)}}

SapFirst == <<<<"A">>, <<"1">>, <<"P", "T", "0", "1">>, <<"C", "1">>, <<"P">>>>
WmsFirst == <<<<"A">>, <<"2">>, <<"A", "R", "E", "A", " ", "S", "T", "A", "G", "E", " ", "1">>, <<"7", "-", "0", "1">>, <<"P", "T", "0", "1">>>>
AdjFirst == <<<<"A">>, <<"5">>, <<"Z", "5", "9">>>>

SapFiles == {File("empty", <<>>), File("nosheet", <<>>), File("norows", <<>>)}
            \cup DataFiles(SapCols, SapCells, SapFirst)

WmsFiles == {File("empty", <<>>), File("nosheet", <<>>), File("norows", <<>>)}
            \cup DataFiles(WmsCols, WmsCells, WmsFirst)

AdjFiles == {File("undefined", <<>>), File("empty", <<>>), File("nosheet", <<>>),
             File("norows", <<>>)}
            \cup DataFiles(AdjCols, AdjCells, AdjFirst)

-----------------------------------------------------------------------------
(* Paso 1: SAP *)

SapHeaders(firstRow) ==
  [sku     |-> findHeader(firstRow, SKU_SYNONYMS),
   qty     |-> findHeader(firstRow, QTY_SYNONYMS),
   centro  |-> findHeader(firstRow, CENTRO_SYNONYMS),
   desc    |-> findHeader(firstRow, NOMBRE_PROD_SYNONYMS),
   areaSap |-> findHeader(firstRow, WMS_AREA_SAP_SYNONYMS)]

SapMissing_WithoutCentro(h) ==
  Missing(<< <<h.sku, "SKU/Material">>, <<h.qty, "Cantidad/Stock">>,
             <<h.areaSap, "Almacén/AREA SAP">> >>)

SapMissing(h) == Missing(<< <<h.sku, "SKU/Material">>, <<h.qty, "Cantidad/Stock">>,
                            <<h.areaSap, "Almacén/AREA SAP">>, <<h.centro, "Centro">> >>)

\* SapHeaders of the first rows that occur, computed once
SapHeadersOf == [r \in RowObjects(SapCols, SapCells \cup BigSapCells, SapFirst) |-> SapHeaders(r)]
SapHeadersFor(firstRow) == IF firstRow \in DOMAIN SapHeadersOf THEN SapHeadersOf[firstRow]
                           ELSE SapHeaders(firstRow)

\* one SAP row, counted whatever its storage location
SapRow_AnyLocation(st, row, h) ==
  LET sku == Trim(OrElse(Get(row, h.sku), <<>>))
      qty == parseFloat(RemoveCommas(OrElse(Get(row, h.qty), <<"0">>)))
      dm  == ensureSku(st.dataMap, sku)
  IN IF sku # <<>> /\ ~isNaN(qty)
     THEN [st EXCEPT !.dataMap = MapSet(dm, sku, [MapGet(dm, sku) EXCEPT !.sapQty = Add(@, qty)])]
     ELSE st

\* one SAP row (st: the four Maps)
SapRow(st, row, h) ==
  LET areaSap == ToUpperCase(Trim(OrElse(Get(row, h.areaSap), <<>>)))
      sku     == Trim(OrElse(Get(row, h.sku), <<>>))
      qty     == parseFloat(RemoveCommas(OrElse(Get(row, h.qty), <<"0">>)))
      centro  == Trim(OrElse(Get(row, h.centro), <<>>))
      dm      == ensureSku(st.dataMap, sku)
      e0      == MapGet(dm, sku)
      e1      == [e0 EXCEPT !.sapQty = Add(@, qty)]
      e2      == IF e1.centro = <<>> THEN [e1 EXCEPT !.centro = centro] ELSE e1
      e3      == IF (e2.nombreProd = <<>> \/ e2.nombreProd = Undefined) /\ h.desc # Undefined
                 THEN [e2 EXCEPT !.nombreProd = Get(row, h.desc)] ELSE e2
  IN IF areaSap # PT01 THEN st
     ELSE IF sku # <<>> /\ ~isNaN(qty)
     THEN [st EXCEPT !.dataMap = MapSet(dm, sku, e3),
                     !.skuToCentroMap = IF centro # <<>> /\ ~Has(@, sku)
                                        THEN MapSet(@, sku, centro) ELSE @]
     ELSE st

\* sapData.forEach
RECURSIVE SapRows(_, _, _)
SapRows(st, rows, h) == IF rows = <<>> THEN st ELSE SapRows(SapRow(st, Head(rows), h), Tail(rows), h)

\* the SAP step on file f from maps st: the error thrown, or the maps after it
SapStep(st, f) ==
  LET read == readFileFromBase64(f, "SAP")
      h    == SapHeadersFor(FirstRow(read.rows))
  IN IF ~read.ok THEN [threw |-> TRUE, error |-> Thrown("[Paso 1: SAP]", read.what, "SAP", <<>>), st |-> st]
     ELSE IF FirstRow(read.rows) = Undefined
     THEN [threw |-> TRUE, error |-> Thrown("[Paso 1: SAP]", "empty", "SAP", <<>>), st |-> st]
     ELSE IF SapMissing(h) # <<>>
     THEN [threw |-> TRUE, error |-> Thrown("[Paso 1: SAP]", "columns", "SAP", SapMissing(h)), st |-> st]
     ELSE [threw |-> FALSE, error |-> Thrown("", "", "", <<>>), st |-> SapRows(st, read.rows, h)]

-----------------------------------------------------------------------------
(* Paso 2: WMS *)

WmsHeaders(firstRow) ==
  [sku       |-> findHeader(firstRow, SKU_SYNONYMS),
   qty       |-> findHeader(firstRow, QTY_SYNONYMS),
   area      |-> findHeader(firstRow, AREA_SYNONYMS),
   areaSap   |-> findHeader(firstRow, WMS_AREA_SAP_SYNONYMS),
   ubicacion |-> findHeader(firstRow, UBICACION_SYNONYMS)]

WmsMissing(h) == Missing(<< <<h.sku, "SKU/Material">>, <<h.qty, "Cantidad">>,
                            <<h.area, "Área">>, <<h.ubicacion, "Ubicación">>,
                            <<h.areaSap, "AREA SAP/Almacén">> >>)

\* WmsHeaders of the first rows that occur, computed once
WmsHeadersOf == [r \in RowObjects(WmsCols, WmsCells \cup BigWmsCells, WmsFirst) |-> WmsHeaders(r)]
WmsHeadersFor(firstRow) == IF firstRow \in DOMAIN WmsHeadersOf THEN WmsHeadersOf[firstRow]
                           ELSE WmsHeaders(firstRow)

\* one WMS row, its stage quantity counted only at storage location PT01
WmsRow_StageAtPT01(st, row, h) ==
  LET sku       == Trim(OrElse(Get(row, h.sku), <<>>))
      qty       == parseFloat(RemoveCommas(OrElse(Get(row, h.qty), <<"0">>)))
      dm        == ensureSku(st.dataMap, sku)
      e0        == MapGet(dm, sku)
      areaSap   == ToUpperCase(Trim(OrElse(Get(row, h.areaSap), <<>>)))
      area      == ToUpperCase(Trim(OrElse(Get(row, h.area), <<>>)))
      ubicacion == Trim(OrElse(Get(row, h.ubicacion), <<>>))
      e1        == IF areaSap = PT01 THEN [e0 EXCEPT !.wmsQty = Add(@, qty)] ELSE e0
      e2        == IF areaSap = PT01 /\ StartsWith(area, AREA_STAGE) /\ StartsWith(ubicacion, <<"7">>)
                   THEN [e1 EXCEPT !.stockParaTraslado = Add(@, qty)] ELSE e1
  IN IF sku = <<>> \/ isNaN(qty) THEN st
     ELSE [st EXCEPT !.dataMap = MapSet(dm, sku, e2)]

\* one WMS row
WmsRow(st, row, h) ==
  LET sku       == Trim(OrElse(Get(row, h.sku), <<>>))
      qty       == parseFloat(RemoveCommas(OrElse(Get(row, h.qty), <<"0">>)))
      dm        == ensureSku(st.dataMap, sku)
      e0        == MapGet(dm, sku)
      areaSap   == ToUpperCase(Trim(OrElse(Get(row, h.areaSap), <<>>)))
      e1        == IF areaSap = PT01 THEN [e0 EXCEPT !.wmsQty = Add(@, qty)] ELSE e0
      area      == ToUpperCase(Trim(OrElse(Get(row, h.area), <<>>)))
      ubicacion == Trim(OrElse(Get(row, h.ubicacion), <<>>))
      e2        == IF StartsWith(area, AREA_STAGE) /\ StartsWith(ubicacion, <<"7">>)
                   THEN [e1 EXCEPT !.stockParaTraslado = Add(@, qty)] ELSE e1
  IN IF sku = <<>> \/ isNaN(qty) THEN st
     ELSE [st EXCEPT !.dataMap = MapSet(dm, sku, e2)]

\* wmsData.forEach
RECURSIVE WmsRows(_, _, _)
WmsRows(st, rows, h) == IF rows = <<>> THEN st ELSE WmsRows(WmsRow(st, Head(rows), h), Tail(rows), h)

WmsStep(st, f) ==
  LET read == readFileFromBase64(f, "WMS")
      h    == WmsHeadersFor(FirstRow(read.rows))
  IN IF ~read.ok THEN [threw |-> TRUE, error |-> Thrown("[Paso 2: WMS]", read.what, "WMS", <<>>), st |-> st]
     ELSE IF FirstRow(read.rows) = Undefined
     THEN [threw |-> TRUE, error |-> Thrown("[Paso 2: WMS]", "empty", "WMS", <<>>), st |-> st]
     ELSE IF WmsMissing(h) # <<>>
     THEN [threw |-> TRUE, error |-> Thrown("[Paso 2: WMS]", "columns", "WMS", WmsMissing(h)), st |-> st]
     ELSE [threw |-> FALSE, error |-> Thrown("", "", "", <<>>), st |-> WmsRows(st, read.rows, h)]

-----------------------------------------------------------------------------
(* Paso 3: Ajustes *)

AdjHeaders(firstRow) ==
  [sku      |-> findHeader(firstRow, SKU_SYNONYMS),
   qty      |-> findHeader(firstRow, QTY_SYNONYMS),
   claseMov |-> findHeader(firstRow, CLASE_MOV_SYNONYMS)]

AdjMissing(h) == Missing(<< <<h.sku, "SKU/Material">>, <<h.qty, "Cantidad">>,
                            <<h.claseMov, "Clase de Movimiento">> >>)

\* AdjHeaders of the first rows that occur, computed once
AdjHeadersOf == [r \in RowObjects(AdjCols, AdjCells \cup OtherClassAdjCells \cup BigAdjCells, AdjFirst) |->
                   AdjHeaders(r)]
AdjHeadersFor(firstRow) == IF firstRow \in DOMAIN AdjHeadersOf THEN AdjHeadersOf[firstRow]
                           ELSE AdjHeaders(firstRow)

difInvMovs == { <<"Z", "5", "9">>, <<"Z", "6", "0">>, <<"Z", "6", "5">>, <<"Z", "6", "6">> }
Z42 == <<"Z", "4", "2">>
Z44 == <<"Z", "4", "4">>

\* (m.get(k) || 0) + qty
Accumulate(m, k, qty) ==
  MapSet(m, k, Add(IF Has(m, k) /\ MapGet(m, k) # Zero THEN MapGet(m, k) ELSE Zero, qty))

\* one adjustment row, a Z42 row adding to the SKU's adjustment as well
AdjRow_MermaAlsoAdjusts(st, row, h) ==
  LET sku      == Trim(OrElse(Get(row, h.sku), <<>>))
      qty      == parseFloat(RemoveCommas(OrElse(Get(row, h.qty), <<"0">>)))
      claseMov == ToUpperCase(Trim(OrElse(Get(row, h.claseMov), <<>>)))
      centro   == IF Has(st.skuToCentroMap, sku) THEN OrElse(MapGet(st.skuToCentroMap, sku), INDEFINIDO)
                  ELSE INDEFINIDO
      dm       == ensureSku(st.dataMap, sku)
      added    == MapSet(dm, sku, [MapGet(dm, sku) EXCEPT !.adjustment = Add(@, qty)])
  IN IF sku # <<>> /\ ~isNaN(qty) /\ claseMov # <<>>
     THEN IF claseMov \in difInvMovs
          THEN [st EXCEPT !.dataMap = added]
          ELSE IF claseMov = Z42
          THEN [st EXCEPT !.dataMap = added, !.mermaByCentro = Accumulate(@, centro, qty)]
          ELSE IF claseMov = Z44
          THEN [st EXCEPT !.vencimientoByCentro = Accumulate(@, centro, qty)]
          ELSE st
     ELSE st

\* one adjustment row
AdjRow(st, row, h) ==
  LET sku      == Trim(OrElse(Get(row, h.sku), <<>>))
      qty      == parseFloat(RemoveCommas(OrElse(Get(row, h.qty), <<"0">>)))
      claseMov == ToUpperCase(Trim(OrElse(Get(row, h.claseMov), <<>>)))
      centro   == IF Has(st.skuToCentroMap, sku) THEN OrElse(MapGet(st.skuToCentroMap, sku), INDEFINIDO)
                  ELSE INDEFINIDO
      dm       == ensureSku(st.dataMap, sku)
  IN IF sku # <<>> /\ ~isNaN(qty) /\ claseMov # <<>>
     THEN IF claseMov \in difInvMovs
          THEN [st EXCEPT !.dataMap = MapSet(dm, sku, [MapGet(dm, sku) EXCEPT !.adjustment = Add(@, qty)])]
          ELSE IF claseMov = Z42
          THEN [st EXCEPT !.mermaByCentro = Accumulate(@, centro, qty)]
          ELSE IF claseMov = Z44
          THEN [st EXCEPT !.vencimientoByCentro = Accumulate(@, centro, qty)]
          ELSE st
     ELSE st

\* adjustmentsData.forEach
RECURSIVE AdjRows(_, _, _)
AdjRows(st, rows, h) == IF rows = <<>> THEN st ELSE AdjRows(AdjRow(st, Head(rows), h), Tail(rows), h)

\* without the guard  if (input.adjustmentsFileB64 && ...length > 0)
AdjStep_Unguarded(st, f) ==
  LET read == readFileFromBase64(f, "Ajustes")
      h    == AdjHeadersFor(FirstRow(read.rows))
      go(s) == [threw |-> FALSE, returned |-> FALSE, error |-> Thrown("", "", "", <<>>), st |-> s]
  IN IF ~read.ok
     THEN [go(st) EXCEPT !.threw = TRUE, !.error = Thrown("[Paso 3: Ajustes]", read.what, "Ajustes", <<>>)]
     ELSE IF Len(read.rows) = 0 THEN [go(st) EXCEPT !.returned = TRUE]
     ELSE IF FirstRow(read.rows) = Undefined THEN [go(st) EXCEPT !.returned = TRUE]
     ELSE IF AdjMissing(h) # <<>> THEN [go(st) EXCEPT !.returned = TRUE]
     ELSE go(AdjRows(st, read.rows, h))

\* the adjustments step: an error thrown, a bare `return;` (returned), or the maps
AdjStep(st, f) ==
  LET read == readFileFromBase64(f, "Ajustes")
      h    == AdjHeadersFor(FirstRow(read.rows))
      go(s) == [threw |-> FALSE, returned |-> FALSE, error |-> Thrown("", "", "", <<>>), st |-> s]
  IN IF f.kind \in {"undefined", "empty"} THEN go(st)
     ELSE IF ~read.ok
     THEN [go(st) EXCEPT !.threw = TRUE, !.error = Thrown("[Paso 3: Ajustes]", read.what, "Ajustes", <<>>)]
     ELSE IF Len(read.rows) = 0 THEN [go(st) EXCEPT !.returned = TRUE]
     ELSE IF FirstRow(read.rows) = Undefined THEN [go(st) EXCEPT !.returned = TRUE]
     ELSE IF AdjMissing(h) # <<>> THEN [go(st) EXCEPT !.returned = TRUE]
     ELSE go(AdjRows(st, read.rows, h))

-----------------------------------------------------------------------------
(* Paso 4: final report *)

\* entry.centro after  if (!entry.centro) entry.centro = skuToCentroMap.get(sku) || 'INDEFINIDO'
CentroOf(entry, s2c) ==
  IF entry.centro # <<>> THEN entry.centro
  ELSE IF Has(s2c, entry.sku) THEN OrElse(MapGet(s2c, entry.sku), INDEFINIDO) ELSE INDEFINIDO

ReportRow_SapMinusWms(entry, s2c) ==
  [Centro            |-> CentroOf(entry, s2c),
   DescripcionAlmacen |-> entry.descAlmacen,
   SKU               |-> entry.sku,
   NombreProd        |-> entry.nombreProd,
   StockSAP          |-> entry.sapQty,
   StockWMS          |-> entry.wmsQty,
   Diferencia        |-> Sub(entry.sapQty, entry.wmsQty),
   AjusteMensual     |-> entry.adjustment,
   StockParaTraslado |-> entry.stockParaTraslado]

ReportRow(entry, s2c) ==
  [Centro            |-> CentroOf(entry, s2c),
   DescripcionAlmacen |-> entry.descAlmacen,
   SKU               |-> entry.sku,
   NombreProd        |-> entry.nombreProd,
   StockSAP          |-> entry.sapQty,
   StockWMS          |-> entry.wmsQty,
   Diferencia        |-> Sub(entry.wmsQty, entry.sapQty),
   AjusteMensual     |-> entry.adjustment,
   StockParaTraslado |-> entry.stockParaTraslado]

\* a filter that also keeps a row for its stock to transfer
Reported_WithTraslado(r) ==
  r.StockSAP # Zero \/ r.StockWMS # Zero \/ r.AjusteMensual # Zero \/ r.StockParaTraslado # Zero

\* the filter of the final report
Reported(r) == r.StockSAP # Zero \/ r.StockWMS # Zero \/ r.AjusteMensual # Zero

FinalReport(dm, s2c) ==
  SelectSeq([i \in 1..Len(dm) |-> ReportRow(dm[i][2], s2c)], Reported)

\* the entries after the map callback has filled in their centro
CentroFilled(dm, s2c) ==
  [i \in 1..Len(dm) |-> <<dm[i][1], [dm[i][2] EXCEPT !.centro = CentroOf(dm[i][2], s2c)]>>]

-----------------------------------------------------------------------------
(* Paso 5: the workbook;  Paso 6: data for the UI *)

DetailReport(byCentro) ==
  [i \in 1..Len(byCentro) |-> [Centro |-> byCentro[i][1], SumaDeCantidad |-> byCentro[i][2]]]

Sheet(name, rows) == [name |-> name, rows |-> rows]

Workbook(report, merma, vencimiento) ==
  <<Sheet("Análisis de Stock", report)>>
  \o (IF Len(merma) > 0 THEN <<Sheet("Merma (Z42)", merma)>> ELSE <<>>)
  \o (IF Len(vencimiento) > 0 THEN <<Sheet("Vencimiento (Z44)", vencimiento)>> ELSE <<>>)

RECURSIVE SummaryByCentro(_, _)
SummaryByCentro(m, report) ==
  IF report = <<>> THEN m
  ELSE SummaryByCentro(Accumulate(m, OrElse(Head(report).Centro, INDEFINIDO),
                                  Head(report).AjusteMensual), Tail(report))

chartColors == <<"var(--color-chart-1)", "var(--color-chart-2)", "var(--color-chart-3)",
                 "var(--color-chart-4)", "var(--color-chart-5)">>

SummaryChartData(summary) ==
  SelectSeq([i \in 1..Len(summary) |->
               [name |-> summary[i][1], value |-> MathAbs(summary[i][2]),
                fill |-> chartColors[((i - 1) % Len(chartColors)) + 1]]],
            LAMBDA item : Positive(item.value))

DiferenciaReport(summary) ==
  SelectSeq([i \in 1..Len(summary) |-> [Centro |-> summary[i][1], Diferencia |-> summary[i][2]]],
            LAMBDA item : item.Diferencia # Zero)

\* the object generateAnalysisFile returns
Result(fileB64, report, merma, vencimiento) ==
  [kind |-> "value",
   fileB64 |-> fileB64,
   analysisReport |-> report,
   mermaReport |-> merma,
   vencimientoReport |-> vencimiento,
   summaryChartData |-> SummaryChartData(SummaryByCentro(<<>>, report)),
   diferenciaReport |-> DiferenciaReport(SummaryByCentro(<<>>, report))]

-----------------------------------------------------------------------------
(* The caller *)

\* the file a step reads: the one the invocation was given, any file when the
\* caller supplies it only now
Supplied(given, files) == IF given = Unread THEN files ELSE {given}

-----------------------------------------------------------------------------
(* generateAnalysisFile *)

NoMaps == [dataMap |-> <<>>, skuToCentroMap |-> <<>>, mermaByCentro |-> <<>>,
           vencimientoByCentro |-> <<>>]

Maps == [dataMap |-> dataMap, skuToCentroMap |-> skuToCentroMap,
         mermaByCentro |-> mermaByCentro, vencimientoByCentro |-> vencimientoByCentro]

SetMaps(st) == /\ dataMap' = st.dataMap
               /\ skuToCentroMap' = st.skuToCentroMap
               /\ mermaByCentro' = st.mermaByCentro
               /\ vencimientoByCentro' = st.vencimientoByCentro

Pending == [kind |-> "pending"]
ReturnedUndefined == [kind |-> "undefined"]

NoInput == [sapFileB64 |-> Unread, wmsFileB64 |-> Unread, adjustmentsFileB64 |-> Unread]

Reading(name, f) == [name |-> name, file |-> f]

Init ==
  /\ pc = "idle"
  /\ input = NoInput
  /\ cur = Reading("", Unread)
  /\ dataMap = <<>> /\ skuToCentroMap = <<>> /\ mermaByCentro = <<>> /\ vencimientoByCentro = <<>>
  /\ finalReport = <<>> /\ mermaReport = <<>> /\ vencimientoReport = <<>>
  /\ outputBase64 = <<>>
  /\ outcome = Pending
  /\ calls = 0
  /\ previous = Pending

\* dataMap and skuToCentroMap kept from the call before (Maps of the module)
FreshLocals_SharedMaps ==
  /\ UNCHANGED <<dataMap, skuToCentroMap>>
  /\ mermaByCentro' = <<>> /\ vencimientoByCentro' = <<>>
  /\ finalReport' = <<>> /\ mermaReport' = <<>> /\ vencimientoReport' = <<>>
  /\ outputBase64' = <<>>

\* the Maps and locals a call starts with
FreshLocals ==
  /\ SetMaps(NoMaps)
  /\ finalReport' = <<>> /\ mermaReport' = <<>> /\ vencimientoReport' = <<>>
  /\ outputBase64' = <<>>

\* a call begins (the one before it, if any, has ended)
Begin(in) ==
  /\ pc \in {"idle", "returned", "threw"}
  /\ calls < MaxCalls
  /\ pc' = "sap"
  /\ input' = in
  /\ cur' = Reading("", Unread)
  /\ FreshLocals
  /\ outcome' = Pending
  /\ calls' = calls + 1
  /\ previous' = outcome

\* one call, whose files are supplied as the steps read them
Invoke == pc = "idle" /\ Begin(NoInput)

Throw(error) == /\ pc' = "threw"
                /\ outcome' = error

ProcessSAP ==
  /\ pc = "sap"
  /\ \E f \in Supplied(input.sapFileB64, SapFiles) :
       LET r == SapStep(Maps, f)
       IN /\ cur' = Reading("SAP", f)
          /\ IF r.threw THEN Throw(r.error) /\ SetMaps(Maps)
             ELSE pc' = "wms" /\ SetMaps(r.st) /\ UNCHANGED outcome
  /\ UNCHANGED <<input, finalReport, mermaReport, vencimientoReport, outputBase64, calls,
                 previous>>

ProcessWMS ==
  /\ pc = "wms"
  /\ \E f \in Supplied(input.wmsFileB64, WmsFiles) :
       LET r == WmsStep(Maps, f)
       IN /\ cur' = Reading("WMS", f)
          /\ IF r.threw THEN Throw(r.error) /\ SetMaps(Maps)
             ELSE pc' = "adj" /\ SetMaps(r.st) /\ UNCHANGED outcome
  /\ UNCHANGED <<input, finalReport, mermaReport, vencimientoReport, outputBase64, calls,
                 previous>>

ProcessAdjustments ==
  /\ pc = "adj"
  /\ \E f \in Supplied(input.adjustmentsFileB64, AdjFiles) :
       LET r == AdjStep(Maps, f)
       IN /\ cur' = Reading("Ajustes", f)
          /\ IF r.threw THEN Throw(r.error) /\ SetMaps(Maps)
             ELSE IF r.returned
             THEN pc' = "returned" /\ outcome' = ReturnedUndefined /\ SetMaps(Maps)
             ELSE pc' = "report" /\ SetMaps(r.st) /\ UNCHANGED outcome
  /\ UNCHANGED <<input, finalReport, mermaReport, vencimientoReport, outputBase64, calls,
                 previous>>

GenerateReport ==
  /\ pc = "report"
  /\ finalReport' = FinalReport(dataMap, skuToCentroMap)
  /\ dataMap' = CentroFilled(dataMap, skuToCentroMap)
  /\ pc' = "excel"
  /\ UNCHANGED <<input, cur, skuToCentroMap, mermaByCentro, vencimientoByCentro,
                 mermaReport, vencimientoReport, outputBase64, outcome, calls, previous>>

CreateExcel ==
  /\ pc = "excel"
  /\ mermaReport' = DetailReport(mermaByCentro)
  /\ vencimientoReport' = DetailReport(vencimientoByCentro)
  /\ outputBase64' = Workbook(finalReport, DetailReport(mermaByCentro),
                              DetailReport(vencimientoByCentro))
  /\ pc' = "ui"
  /\ UNCHANGED <<input, cur, dataMap, skuToCentroMap, mermaByCentro, vencimientoByCentro,
                 finalReport, outcome, calls, previous>>

ReturnResult ==
  /\ pc = "ui"
  /\ outcome' = Result(outputBase64, finalReport, mermaReport, vencimientoReport)
  /\ pc' = "returned"
  /\ UNCHANGED <<input, cur, dataMap, skuToCentroMap, mermaByCentro, vencimientoByCentro,
                 finalReport, mermaReport, vencimientoReport, outputBase64, calls, previous>>

Steps == \/ ProcessSAP
         \/ ProcessWMS
         \/ ProcessAdjustments
         \/ GenerateReport
         \/ CreateExcel
         \/ ReturnResult

Next == Invoke \/ Steps

Spec == Init /\ [][Next]_vars

-----------------------------------------------------------------------------
(* Sequences of invocations *)

OneRowFiles(cols, cellSet) == {File("data", <<RowOf(cols, c)>>) : c \in cellSet}

SeqSapFiles == {File("norows", <<>>)} \cup OneRowFiles(SapCols, SapCells)
SeqWmsFiles == {File("norows", <<>>)} \cup OneRowFiles(WmsCols, WmsCells)
SeqAdjFiles == {File("undefined", <<>>), File("norows", <<>>),
                File("data", <<RowOf(AdjCols, Blanked(AdjFirst, {3}))>>)}
               \cup OneRowFiles(AdjCols, AdjCells)

SeqInputs == [sapFileB64 : SeqSapFiles, wmsFileB64 : SeqWmsFiles,
              adjustmentsFileB64 : SeqAdjFiles]

\* a call with its three files, after any calls before it
InvokeWith == \E in \in SeqInputs : Begin(in)

NextSeq == InvokeWith \/ Steps

SpecSeq == Init /\ [][NextSeq]_vars

\* what generateAnalysisFile(in) gives when nothing precedes it
Run(in) ==
  LET a == SapStep(NoMaps, in.sapFileB64)
      b == WmsStep(a.st, in.wmsFileB64)
      c == AdjStep(b.st, in.adjustmentsFileB64)
      report == FinalReport(c.st.dataMap, c.st.skuToCentroMap)
      merma  == DetailReport(c.st.mermaByCentro)
      venc   == DetailReport(c.st.vencimientoByCentro)
  IN IF a.threw THEN a.error
     ELSE IF b.threw THEN b.error
     ELSE IF c.threw THEN c.error
     ELSE IF c.returned THEN ReturnedUndefined
     ELSE Result(Workbook(report, merma, venc), report, merma, venc)

-----------------------------------------------------------------------------
(* A call, then the same call with the rows of one file permuted *)

RowOrders(n) == {p \in [1..n -> 1..n] : \A i, j \in 1..n : p[i] = p[j] => i = j}

Permuted(f) == {File(f.kind, [i \in 1..Len(f.rows) |-> f.rows[p[i]]]) :
                  p \in RowOrders(Len(f.rows))}

BigFiles(cols, cellSet) ==
  {File("data", [i \in 1..Len(q) |-> RowOf(cols, q[i])]) : q \in SeqsUpTo(cellSet, MaxPermRows)}

PermSap == File("data", <<RowOf(SapCols, SapFirst)>>)
PermWms == File("data", <<RowOf(WmsCols, WmsFirst)>>)
PermAdj == File("undefined", <<>>)

PermInputs ==
  {[sapFileB64 |-> f, wmsFileB64 |-> PermWms, adjustmentsFileB64 |-> PermAdj] :
     f \in BigFiles(SapCols, BigSapCells)}
  \cup {[sapFileB64 |-> PermSap, wmsFileB64 |-> f, adjustmentsFileB64 |-> PermAdj] :
           f \in BigFiles(WmsCols, BigWmsCells)}
  \cup {[sapFileB64 |-> PermSap, wmsFileB64 |-> PermWms, adjustmentsFileB64 |-> f] :
           f \in BigFiles(AdjCols, BigAdjCells)}

InvokeFirst == pc = "idle" /\ \E in \in PermInputs : Begin(in)

InvokePermuted ==
  /\ calls = 1
  /\ \E s \in Permuted(input.sapFileB64), w \in Permuted(input.wmsFileB64),
        a \in Permuted(input.adjustmentsFileB64) :
       Begin([sapFileB64 |-> s, wmsFileB64 |-> w, adjustmentsFileB64 |-> a])

NextPerm == InvokeFirst \/ InvokePermuted \/ Steps

SpecPerm == Init /\ [][NextPerm]_vars

-----------------------------------------------------------------------------
(* A call whose adjustments file has rows of every class *)

ClassInputs ==
  [sapFileB64 : OneRowFiles(SapCols, SapCells),
   wmsFileB64 : OneRowFiles(WmsCols, WmsCells),
   adjustmentsFileB64 : {File("undefined", <<>>)}
                        \cup DataFiles(AdjCols, AdjCells \cup OtherClassAdjCells, AdjFirst)]

InvokeClasses == pc = "idle" /\ \E in \in ClassInputs : Begin(in)

NextClasses == InvokeClasses \/ Steps

SpecClasses == Init /\ [][NextClasses]_vars

-----------------------------------------------------------------------------
(* findHeader on its own *)

\* header names: equal to a synonym, containing one, padded, in capitals, none
HeaderNames ==
  { <<"S", "K", "U">>,
    <<"S", "t", "o", "c", "k", " ", "S", "K", "U">>,
    <<"I", "t", "e", "m">>,
    <<"P", "r", "o", "d", "u", "c", "t", " ", " ", " ", "I", "D">>,
    <<" ", "C", "o", "d", "i", "g", "o", " ", " ", "M", "a", "t", "e", "r", "i", "a", "l", " ">>,
    <<"C", "e", "n", "t", "r", "o">>,
    <<"C", "a", "n", "t", "i", "d", "a", "d">>,
    <<"C", "O", "D", " ", "A", "R", "T">> }

\* a list of synonyms that are not in normal form
PADDED_SYNONYMS == << <<" ", " ", "C", "O", "D", " ", " ", " ", "A", "R", "T", " ">>, <<"I", "T", "E", "M">> >>

HeaderSynonyms == {SKU_SYNONYMS, QTY_SYNONYMS, CENTRO_SYNONYMS, PADDED_SYNONYMS}

\* the sequences of at most n elements of S
RECURSIVE SeqsWithin(_, _)
SeqsWithin(S, n) ==
  IF n = 0 THEN {<<>>}
  ELSE SeqsWithin(S, n - 1) \cup
       {Append(q, x) : q \in {r \in SeqsWithin(S, n - 1) : Len(r) = n - 1}, x \in S}

\* the row objects given to findHeader: rows of at most MaxKeys keys
HeaderRows ==
  {[i \in 1..Len(q) |-> <<q[i], <<"x">>>>] :
     q \in {r \in SeqsWithin(HeaderNames, MaxKeys) :
              \A i, j \in 1..Len(r) : r[i] = r[j] => i = j}}

\* findHeader(row, synonyms) is called
CallFindHeader ==
  /\ pc = "idle"
  /\ \E synonyms \in HeaderSynonyms :
       \/ input' = [row |-> Undefined, synonyms |-> synonyms]
       \/ \E row \in HeaderRows : input' = [row |-> row, synonyms |-> synonyms]
  /\ pc' = "findHeader"
  /\ UNCHANGED <<cur, dataMap, skuToCentroMap, mermaByCentro, vencimientoByCentro, finalReport,
                 mermaReport, vencimientoReport, outputBase64, outcome, calls, previous>>

\* and returns
ReturnHeader ==
  /\ pc = "findHeader"
  /\ outcome' = [kind |-> "header", header |-> findHeader(input.row, input.synonyms)]
  /\ pc' = "returned"
  /\ UNCHANGED <<input, cur, dataMap, skuToCentroMap, mermaByCentro, vencimientoByCentro,
                 finalReport, mermaReport, vencimientoReport, outputBase64, calls, previous>>

NextHeader == CallFindHeader \/ ReturnHeader

SpecHeader == Init /\ [][NextHeader]_vars

-----------------------------------------------------------------------------
(* Properties of one invocation (Spec) *)

Ended == pc \in {"returned", "threw"}

\* the last step read file `name`, a sheet with data rows
ReadData(name) == cur.name = name /\ cur.file.kind = "data"

\* the names of the columns (synonym lists) no key of the header row resolves
Unresolved(firstRow, columns) ==
  LET sel == SelectSeq(columns, LAMBDA c : findHeader(firstRow, c[1]) = Undefined)
  IN [i \in 1..Len(sel) |-> sel[i][2]]

SapRequired == << <<SKU_SYNONYMS, "SKU/Material">>, <<QTY_SYNONYMS, "Cantidad/Stock">>,
                  <<WMS_AREA_SAP_SYNONYMS, "Almacén/AREA SAP">>, <<CENTRO_SYNONYMS, "Centro">> >>
WmsRequired == << <<SKU_SYNONYMS, "SKU/Material">>, <<QTY_SYNONYMS, "Cantidad">>,
                  <<AREA_SYNONYMS, "Área">>, <<UBICACION_SYNONYMS, "Ubicación">>,
                  <<WMS_AREA_SAP_SYNONYMS, "AREA SAP/Almacén">> >>
AdjRequired == << <<SKU_SYNONYMS, "SKU/Material">>, <<QTY_SYNONYMS, "Cantidad">>,
                  <<CLASE_MOV_SYNONYMS, "Clase de Movimiento">> >>

\* the analysis delivered no adjustment: every row's adjustment is 0 and the
\* merma, vencimiento, chart and diferencia reports are empty
NoAdjustments(result) ==
  /\ \A i \in 1..Len(result.analysisReport) : result.analysisReport[i].AjusteMensual = Zero
  /\ result.mermaReport = <<>>
  /\ result.vencimientoReport = <<>>
  /\ result.summaryChartData = <<>>
  /\ result.diferenciaReport = <<>>

\* C1: every invocation that ends has thrown an error or returned a result
\* object with its six fields; it never ends with neither.
C1_ErrorOrResult ==
  Ended => \/ pc = "threw" /\ outcome.kind = "error"
           \/ /\ pc = "returned" /\ outcome.kind = "value"
              /\ {"fileB64", "analysisReport", "mermaReport", "vencimientoReport",
                  "summaryChartData", "diferenciaReport"} \subseteq DOMAIN outcome

C2_WitnessNoName ==
  /\ pc = "wms" /\ ReadData("SAP")
  /\ findHeader(FirstRow(cur.file.rows), NOMBRE_PROD_SYNONYMS) = Undefined

\* C3: with the adjustments file absent (undefined or ''), a call that passed
\* the SAP and WMS steps does not throw, and the result it returns has every
\* adjustment 0 and empty merma, vencimiento, chart and diferencia reports.
C3_NoAdjustmentsFile ==
  (cur.name = "Ajustes" /\ cur.file.kind \in {"undefined", "empty"}) =>
     /\ pc \in {"report", "excel", "ui", "returned"}
     /\ pc = "returned" => outcome.kind = "value" /\ NoAdjustments(outcome)

\* a report with rows, returned by a call without an adjustments file
C3_Witness ==
  /\ pc = "returned" /\ cur.name = "Ajustes" /\ cur.file.kind = "undefined"
  /\ outcome.kind = "value" /\ Len(outcome.analysisReport) >= 2

\* C4: an adjustments file without data rows does not make the call fail: the
\* call goes on as without adjustments.
C4_EmptyAdjustmentsFile ==
  (cur.name = "Ajustes" /\ cur.file.kind = "norows") =>
     /\ pc \in {"report", "excel", "ui", "returned"}
     /\ pc = "returned" => outcome.kind = "value" /\ NoAdjustments(outcome)

\* C5: an adjustments file whose header row lacks the SKU, quantity or
\* movement-class column is skipped: the call still returns the report of the
\* SAP and WMS files, with every adjustment 0 and no merma or vencimiento.
C5_AdjustmentsWithoutColumns ==
  (ReadData("Ajustes") /\ Unresolved(FirstRow(cur.file.rows), AdjRequired) # <<>>) =>
     /\ pc \in {"report", "excel", "ui", "returned"}
     /\ pc = "returned" =>
          /\ outcome.kind = "value" /\ NoAdjustments(outcome)
          /\ outcome.analysisReport = FinalReport(dataMap, skuToCentroMap)

\* C6: a SAP or WMS file that is empty (no sheet, no data rows, or no content)
\* makes the call throw that step's error about that file, and no report exists.
C6_EmptyFile ==
  (cur.name \in {"SAP", "WMS"} /\ cur.file.kind \in {"nosheet", "norows", "empty"}) =>
     /\ pc = "threw" /\ finalReport = <<>>
     /\ outcome.kind = "error" /\ outcome.file = cur.name
     /\ outcome.step = (IF cur.name = "SAP" THEN "[Paso 1: SAP]" ELSE "[Paso 2: WMS]")
     /\ outcome.what = (IF cur.file.kind = "nosheet" THEN "unreadable: no sheet"
                        ELSE IF cur.file.kind = "norows" THEN "unreadable: no data"
                        ELSE "empty")

\* a WMS sheet without data rows stopped a call whose SAP file was read
C6_Witness ==
  /\ pc = "threw" /\ cur.name = "WMS" /\ cur.file.kind = "norows" /\ dataMap # <<>>

\* C10: in every row of the analysis report, Diferencia is Stock WMS minus
\* Stock SAP and Descripción (Almacén) is 'PT01'.
C10_DiferenciaAndAlmacen ==
  LET rows == IF outcome.kind = "value" THEN outcome.analysisReport ELSE finalReport
  IN \A i \in 1..Len(rows) :
       /\ rows[i].Diferencia = Sub(rows[i].StockWMS, rows[i].StockSAP)
       /\ rows[i].DescripcionAlmacen = PT01

\* a returned report with a row whose two stocks differ
C10_Witness ==
  /\ pc = "returned" /\ outcome.kind = "value"
  /\ \E i \in 1..Len(outcome.analysisReport) :
       /\ outcome.analysisReport[i].Diferencia # Zero
       /\ outcome.analysisReport[i].StockSAP # Zero
       /\ outcome.analysisReport[i].StockWMS # Zero

-----------------------------------------------------------------------------
(* Properties of calls in sequence (SpecSeq, SpecPerm) and of rows (Spec) *)

\* per SKU of a returned report: the two stocks, their difference, the
\* adjustment and the stock to transfer
Totals(result) ==
  {[SKU |-> r.SKU, StockSAP |-> r.StockSAP, StockWMS |-> r.StockWMS,
    Diferencia |-> r.Diferencia, AjusteMensual |-> r.AjusteMensual,
    StockParaTraslado |-> r.StockParaTraslado] :
     r \in {result.analysisReport[i] : i \in 1..Len(result.analysisReport)}}

\* C7: a call whose files are those of the call before with the data rows of a
\* file permuted reports the same SKUs and, for every SKU, the same Stock SAP,
\* Stock WMS, Diferencia, Ajuste Mensual and Stock para Traslado.
C7_OrderIndependent ==
  (calls = 2 /\ Ended /\ previous.kind = "value") =>
     outcome.kind = "value" /\ Totals(outcome) = Totals(previous)

\* C8: whatever calls came before, a call ends as generateAnalysisFile ends on
\* its own three files when nothing precedes it.
C8_NoSharedState == Ended => outcome = Run(input)

\* a second call returned a report after a first call that returned another
C8_Witness ==
  /\ calls = 2 /\ pc = "returned" /\ outcome.kind = "value" /\ previous.kind = "value"
  /\ outcome.analysisReport # <<>> /\ previous.analysisReport # <<>>
  /\ outcome.analysisReport # previous.analysisReport

\* a second call returned a report after a first call that threw
C8_WitnessAfterError ==
  /\ calls = 2 /\ pc = "returned" /\ outcome.kind = "value" /\ previous.kind = "error"

\* the columns of the sheet: the keys of all its rows, in order of appearance
RECURSIVE SheetColumns(_, _)
SheetColumns(acc, rows) ==
  IF rows = <<>> THEN acc
  ELSE LET new == SelectSeq(Head(rows), LAMBDA c : \A i \in 1..Len(acc) : acc[i][1] # c[1])
       IN SheetColumns(acc \o new, Tail(rows))

\* row with cell key set to v
WithCell(row, key, v) ==
  IF \E i \in 1..Len(row) : row[i][1] = key
  THEN [i \in 1..Len(row) |-> IF row[i][1] = key THEN <<key, v>> ELSE row[i]]
  ELSE Append(row, <<key, v>>)

\* the row's SKU is not empty after trimming and its quantity parses
ValidRow(row, h) ==
  /\ Trim(OrElse(Get(row, h.sku), <<>>)) # <<>>
  /\ ~isNaN(parseFloat(RemoveCommas(OrElse(Get(row, h.qty), <<"0">>))))

ValidRows(rows, h) == SelectSeq(rows, LAMBDA r : ValidRow(r, h))

\* every empty quantity cell written as 0
ZeroForEmpty(rows, h) ==
  [i \in 1..Len(rows) |-> IF OrElse(Get(rows[i], h.qty), <<>>) = <<>>
                          THEN WithCell(rows[i], h.qty, <<"0">>) ELSE rows[i]]

\* C9: in a file whose sheet has the required columns, rows with an empty SKU
\* or a quantity that is no number neither stop the call nor change a total:
\* the step leaves the Maps that the valid rows alone give, and those that the
\* rows give with every empty quantity cell read as 0.
C9_PerRowValidation ==
  [][ /\ (pc = "sap" /\ cur'.file.kind = "data"
            /\ Unresolved(SheetColumns(<<>>, cur'.file.rows), SapRequired) = <<>>) =>
          LET h == SapHeaders(SheetColumns(<<>>, cur'.file.rows))
          IN /\ pc' = "wms"
             /\ Maps' = SapRows(Maps, ValidRows(cur'.file.rows, h), h)
             /\ Maps' = SapRows(Maps, ZeroForEmpty(cur'.file.rows, h), h)
      /\ (pc = "wms" /\ cur'.file.kind = "data"
            /\ Unresolved(SheetColumns(<<>>, cur'.file.rows), WmsRequired) = <<>>) =>
          LET h == WmsHeaders(SheetColumns(<<>>, cur'.file.rows))
          IN /\ pc' = "adj"
             /\ Maps' = WmsRows(Maps, ValidRows(cur'.file.rows, h), h)
             /\ Maps' = WmsRows(Maps, ZeroForEmpty(cur'.file.rows, h), h)
      /\ (pc = "adj" /\ cur'.file.kind = "data"
            /\ Unresolved(SheetColumns(<<>>, cur'.file.rows), AdjRequired) = <<>>) =>
          LET h == AdjHeaders(SheetColumns(<<>>, cur'.file.rows))
          IN /\ pc' = "report"
             /\ Maps' = AdjRows(Maps, ValidRows(cur'.file.rows, h), h)
             /\ Maps' = AdjRows(Maps, ZeroForEmpty(cur'.file.rows, h), h)
    ]_vars

-----------------------------------------------------------------------------
(* Properties of the totals (Spec) *)

\* the cell of a row under a header as the steps read it: String(row[header] || dflt)
Cell(row, header, dflt) == OrElse(Get(row, header), dflt)

\* the quantity of a row
Quantity(row, h) == parseFloat(RemoveCommas(Cell(row, h.qty, <<"0">>)))

\* the sum of a sequence of numbers, in order
RECURSIVE SumOf(_)
SumOf(q) == IF q = <<>> THEN Zero
            ELSE Add(SumOf(SubSeq(q, 1, Len(q) - 1)), q[Len(q)])

\* the quantities of the rows that satisfy Counts
Quantities(rows, h, Counts(_)) ==
  LET sel == SelectSeq(rows, Counts) IN [i \in 1..Len(sel) |-> Quantity(sel[i], h)]

\* the entry of a SKU
EntryOf(dm, sku) == MapGet(dm, sku)

\* the valid SAP rows of a SKU at storage location PT01
SapCounts(row, h, sku) ==
  /\ ValidRow(row, h) /\ Trim(Cell(row, h.sku, <<>>)) = sku
  /\ ToUpperCase(Trim(Cell(row, h.areaSap, <<>>))) = PT01

\* C11: the SAP step leaves an entry for exactly the SKUs that have a valid SAP
\* row at storage location PT01 (trimmed, upper-cased), its sapQty the sum of
\* the quantities of those rows; no later step changes sapQty, and 'Stock SAP'
\* of a report row is the sapQty of its SKU.
C11_StockSap ==
  [][ /\ (pc = "sap" /\ pc' = "wms") =>
          LET rows == cur'.file.rows
              h    == SapHeadersFor(rows[1])
              skus == {Trim(Cell(rows[i], h.sku, <<>>)) : i \in 1..Len(rows)}
          IN /\ MapKeys(dataMap') =
                  {sku \in skus : \E i \in 1..Len(rows) : SapCounts(rows[i], h, sku)}
             /\ \A sku \in MapKeys(dataMap') :
                  EntryOf(dataMap', sku).sapQty =
                    SumOf(Quantities(rows, h, LAMBDA r : SapCounts(r, h, sku)))
      /\ (pc \in {"wms", "adj", "report"}) =>
          \A sku \in MapKeys(dataMap) :
             Has(dataMap', sku) /\ EntryOf(dataMap', sku).sapQty = EntryOf(dataMap, sku).sapQty
      /\ (pc = "report") =>
          \A i \in 1..Len(finalReport') :
             finalReport'[i].StockSAP = EntryOf(dataMap, finalReport'[i].SKU).sapQty
    ]_vars

\* the SAP step read a file with two PT01 rows of one SKU; or a file with a row
\* of another storage location and kept no entry for it
C11_Witness ==
  /\ pc = "wms" /\ ReadData("SAP")
  /\ \E i \in 1..Len(dataMap) : dataMap[i][2].sapQty = Num(0, 2)
  /\ Len(cur.file.rows) = 2

\* the SAP step read only a row of another storage location and kept no entry
C11_WitnessOtherLocation ==
  /\ pc = "wms" /\ ReadData("SAP") /\ dataMap = <<>>
  /\ \E i \in 1..Len(cur.file.rows) :
       /\ ValidRow(cur.file.rows[i], SapHeadersFor(cur.file.rows[1]))
       /\ Trim(Cell(cur.file.rows[i], SapHeadersFor(cur.file.rows[1]).areaSap, <<>>)) # <<>>

\* the valid WMS rows of a SKU at storage location PT01
WmsCounts(row, h, sku) ==
  /\ ValidRow(row, h) /\ Trim(Cell(row, h.sku, <<>>)) = sku
  /\ ToUpperCase(Trim(Cell(row, h.areaSap, <<>>))) = PT01

\* the valid WMS rows of a SKU in an area AREA STAGE... at a location 7...
StageCounts(row, h, sku) ==
  /\ ValidRow(row, h) /\ Trim(Cell(row, h.sku, <<>>)) = sku
  /\ StartsWith(ToUpperCase(Trim(Cell(row, h.area, <<>>))), AREA_STAGE)
  /\ StartsWith(Trim(Cell(row, h.ubicacion, <<>>)), <<"7">>)

\* C12: after the WMS step, wmsQty of every SKU is the sum of the quantities of
\* its valid WMS rows at storage location PT01, and stockParaTraslado the sum of
\* the quantities of its valid WMS rows whose area starts with AREA STAGE and
\* whose location starts with 7, at any storage location (cells trimmed, area and
\* storage location upper-cased); no later step changes the two, and 'Stock
\* WMS' and 'Stock para Traslado' of a report row are those of its SKU.
C12_StockWmsAndTraslado ==
  [][ /\ (pc = "wms" /\ pc' = "adj") =>
          LET rows == cur'.file.rows
              h    == WmsHeadersFor(rows[1])
          IN \A sku \in MapKeys(dataMap') :
               /\ EntryOf(dataMap', sku).wmsQty =
                    SumOf(Quantities(rows, h, LAMBDA r : WmsCounts(r, h, sku)))
               /\ EntryOf(dataMap', sku).stockParaTraslado =
                    SumOf(Quantities(rows, h, LAMBDA r : StageCounts(r, h, sku)))
      /\ (pc \in {"adj", "report"}) =>
          \A sku \in MapKeys(dataMap) :
             /\ Has(dataMap', sku)
             /\ EntryOf(dataMap', sku).wmsQty = EntryOf(dataMap, sku).wmsQty
             /\ EntryOf(dataMap', sku).stockParaTraslado = EntryOf(dataMap, sku).stockParaTraslado
      /\ (pc = "report") =>
          \A i \in 1..Len(finalReport') :
             /\ finalReport'[i].StockWMS = EntryOf(dataMap, finalReport'[i].SKU).wmsQty
             /\ finalReport'[i].StockParaTraslado =
                  EntryOf(dataMap, finalReport'[i].SKU).stockParaTraslado
    ]_vars

\* the WMS step read a row that added to both totals of its SKU and a row of
\* another storage location that added to the stage total only
C12_Witness ==
  /\ pc = "adj" /\ ReadData("WMS")
  /\ \E i \in 1..Len(dataMap) :
       dataMap[i][2].wmsQty # Zero /\ dataMap[i][2].stockParaTraslado = dataMap[i][2].wmsQty
  /\ \E i \in 1..Len(dataMap) :
       dataMap[i][2].wmsQty = Zero /\ dataMap[i][2].stockParaTraslado # Zero
  /\ \E i \in 1..Len(cur.file.rows) :
       ToUpperCase(Trim(Cell(cur.file.rows[i], WmsHeadersFor(cur.file.rows[1]).areaSap, <<>>))) # PT01

\* the final report exists
ReportMade == pc \in {"excel", "ui"} \/ (pc = "returned" /\ outcome.kind = "value")

\* the rows of the final report for a SKU
RowsOf(report, sku) == {i \in 1..Len(report) : report[i].SKU = sku}

\* C13: once the final report is made, a SKU with an entry has a row in it (one
\* row) exactly when its sapQty, wmsQty or adjustment is not 0, whatever its
\* stockParaTraslado; every row of the report is the row of an entry.
C13_ReportFilter ==
  ReportMade =>
    /\ \A sku \in MapKeys(dataMap) :
         LET e == EntryOf(dataMap, sku)
         IN IF e.sapQty # Zero \/ e.wmsQty # Zero \/ e.adjustment # Zero
            THEN Cardinality(RowsOf(finalReport, sku)) = 1
            ELSE RowsOf(finalReport, sku) = {}
    /\ \A i \in 1..Len(finalReport) : finalReport[i].SKU \in MapKeys(dataMap)

\* a report with rows was returned that omits a SKU whose only total is its
\* stock to transfer
C13_Witness ==
  /\ pc = "returned" /\ outcome.kind = "value" /\ outcome.analysisReport # <<>>
  /\ \E sku \in MapKeys(dataMap) :
       /\ EntryOf(dataMap, sku).stockParaTraslado # Zero
       /\ RowsOf(outcome.analysisReport, sku) = {}

\* the movement class of an adjustment row
ClaseMov(row, h) == ToUpperCase(Trim(Cell(row, h.claseMov, <<>>)))

\* the centro an adjustment of a SKU is booked to
CentroFor(s2c, sku) == IF Has(s2c, sku) THEN MapGet(s2c, sku) ELSE INDEFINIDO

\* the valid adjustment rows of a SKU with an inventory-difference class
AdjCounts(row, h, sku) ==
  /\ ValidRow(row, h) /\ Trim(Cell(row, h.sku, <<>>)) = sku
  /\ ClaseMov(row, h) \in difInvMovs

\* the valid adjustment rows of a class booked to a centro
ClassCounts(row, h, class, s2c, centro) ==
  /\ ValidRow(row, h) /\ ClaseMov(row, h) = class
  /\ CentroFor(s2c, Trim(Cell(row, h.sku, <<>>))) = centro

\* a Map of sums per centro is the sums of the valid rows of a class
SumsOfClass(m, rows, h, class, s2c) ==
  /\ MapKeys(m) = {CentroFor(s2c, Trim(Cell(rows[i], h.sku, <<>>))) :
                     i \in {j \in 1..Len(rows) : ValidRow(rows[j], h) /\ ClaseMov(rows[j], h) = class}}
  /\ \A centro \in MapKeys(m) :
       MapGet(m, centro) =
         SumOf(Quantities(rows, h, LAMBDA r : ClassCounts(r, h, class, s2c, centro)))

\* C14: the adjustments step adds the quantity of each valid row to one
\* accumulator at most, chosen by its upper-cased class: the adjustment of a
\* SKU is the sum of its Z59, Z60, Z65 and Z66 rows (an entry is created for a
\* SKU without one, by such a row only), the merma sums are those of the Z42
\* rows, the vencimiento sums those of the Z44 rows, and rows of another class
\* or without class add nothing; the other totals of an entry are unchanged.
C14_AdjustmentClasses ==
  [][ (pc = "adj" /\ pc' = "report" /\ cur'.file.kind = "data") =>
        LET rows == cur'.file.rows
            h    == AdjHeadersFor(rows[1])
            skus == {Trim(Cell(rows[i], h.sku, <<>>)) : i \in 1..Len(rows)}
        IN /\ MapKeys(dataMap') = MapKeys(dataMap) \cup
                {sku \in skus : \E i \in 1..Len(rows) : AdjCounts(rows[i], h, sku)}
           /\ \A sku \in MapKeys(dataMap') :
                LET before == IF Has(dataMap, sku) THEN EntryOf(dataMap, sku) ELSE NewEntry(sku)
                IN EntryOf(dataMap', sku) =
                     [before EXCEPT !.adjustment =
                        SumOf(Quantities(rows, h, LAMBDA r : AdjCounts(r, h, sku)))]
           /\ SumsOfClass(mermaByCentro', rows, h, Z42, skuToCentroMap)
           /\ SumsOfClass(vencimientoByCentro', rows, h, Z44, skuToCentroMap)
           /\ skuToCentroMap' = skuToCentroMap
    ]_vars

\* the adjustments step read an inventory-difference row and a valid row of
\* another class or without class
C14_Witness ==
  /\ pc = "report" /\ ReadData("Ajustes")
  /\ \E i \in 1..Len(dataMap) : dataMap[i][2].adjustment # Zero
  /\ \E i \in 1..Len(cur.file.rows) :
       LET h == AdjHeadersFor(cur.file.rows[1])
       IN /\ ValidRow(cur.file.rows[i], h)
          /\ ClaseMov(cur.file.rows[i], h) \notin difInvMovs \cup {Z42, Z44}

\* the adjustments step read a Z42 row and a Z44 row
C14_WitnessMermaVencimiento ==
  /\ pc = "report" /\ ReadData("Ajustes")
  /\ mermaByCentro # <<>> /\ vencimientoByCentro # <<>>

-----------------------------------------------------------------------------
(* Properties of findHeader (SpecHeader) *)

\* lower case, no white space at either end, single blanks inside
NormalForm(s) ==
  /\ \A i \in 1..Len(s) : s[i] \notin DOMAIN LowerOf /\ s[i] \notin {"\t", "\n"}
  /\ s # <<>> => s[1] # " " /\ s[Len(s)] # " "
  /\ \A i \in 1..(Len(s) - 1) : ~(s[i] = " " /\ s[i + 1] = " ")

\* s without its white space and in lower case
Letters(s) == ToLowerCase(SelectSeq(s, LAMBDA c : ~IsSpace(c)))

Least(S) == CHOOSE n \in S : \A m \in S : n <= m

\* C15: findHeader compares headers and synonyms in normal form (lower case,
\* trimmed, white space runs collapsed). If some header equals some synonym it
\* returns the first header equal to the earliest such synonym, whatever the
\* headers contain; otherwise, if some header contains some synonym, the first
\* header containing the earliest such synonym; otherwise undefined, and only
\* then. What it returns is a key of the row as written.
C15_FindHeader ==
  (pc = "returned" /\ outcome.kind = "header") =>
    LET keys  == IF input.row = Undefined THEN <<>> ELSE Keys(input.row)
        key(j) == Standardize(keys[j])
        syn(i) == Standardize(input.synonyms[i])
        equal    == {i \in 1..Len(input.synonyms) : \E j \in 1..Len(keys) : key(j) = syn(i)}
        contains == {i \in 1..Len(input.synonyms) :
                       \E j \in 1..Len(keys) : Includes(key(j), syn(i))}
    IN /\ \A j \in 1..Len(keys) :
            NormalForm(key(j)) /\ Letters(key(j)) = Letters(keys[j])
       /\ \A i \in 1..Len(input.synonyms) :
            NormalForm(syn(i)) /\ Letters(syn(i)) = Letters(input.synonyms[i])
       /\ IF equal # {}
          THEN outcome.header =
                 keys[Least({j \in 1..Len(keys) : key(j) = syn(Least(equal))})]
          ELSE IF contains # {}
          THEN outcome.header =
                 keys[Least({j \in 1..Len(keys) : Includes(key(j), syn(Least(contains)))})]
          ELSE outcome.header = Undefined
       /\ outcome.header = Undefined <=> contains = {}
       /\ outcome.header # Undefined => \E j \in 1..Len(keys) : outcome.header = keys[j]

\* findHeader returned the header equal to a synonym although the header before
\* it contains an earlier synonym
C15_Witness ==
  /\ pc = "returned" /\ outcome.kind = "header" /\ input.row # Undefined
  /\ Len(input.row) = 2 /\ outcome.header = input.row[2][1]
  /\ \E i \in 1..Len(input.synonyms) :
       /\ Includes(Standardize(input.row[1][1]), Standardize(input.synonyms[i]))
       /\ \A k \in 1..i : Standardize(input.synonyms[k]) # Standardize(outcome.header)

\* findHeader returned a header that only contains a synonym, written with
\* capitals and blanks
C15_WitnessPartial ==
  /\ pc = "returned" /\ outcome.kind = "header" /\ outcome.header # Undefined
  /\ \A i \in 1..Len(input.synonyms) :
       Standardize(input.synonyms[i]) # Standardize(outcome.header)
  /\ Standardize(outcome.header) # outcome.header

====
